---- MODULE Spec2Model ----
(***************************************************************************)
(* Gateway lifecycle, reverse proxy and WebSocket relay of the moltworker  *)
(* worker (src/src/index.ts, src/unnamed/part_000, src/src/gateway/r2.ts). *)
(*                                                                         *)
(* Spec          the sandbox's process registry, the catch-all proxy       *)
(*               handler with its blocking and background                  *)
(*               ensureMoltbotGateway calls, and the /cleanup middleware.  *)
(* RelaySpec     one WebSocket relay session: the two sockets and the      *)
(*               message, close and error listeners of index.ts 481-571.   *)
(* SweepSpec     the two /cleanup sweeps.                                  *)
(* AppSpec       one request through the middleware chain of the app.      *)
(* CronSpec      the scheduled backup tick.                                *)
(* MountSpec     mountR2Storage.                                           *)
(* SessionSpec   a relay session with the runtime's per-socket event       *)
(*               queues; SessionFairSpec adds the runtime's fairness.      *)
(* ProxySpec     the catch-all handler, await by await.                    *)
(***************************************************************************)
EXTENDS Integers, Sequences, FiniteSets, TLC

\* Bounds of the model.
MaxProcs == 2        \* start commands the sandbox accepts in one run
MaxReqs == 1         \* proxied requests in flight at once

VARIABLES
    procs,           \* the sandbox's process list, in start order
    req,             \* per proxied request: handler position and locals
    normalOp,        \* history: no /cleanup/start handled, no two
                     \* ensureMoltbotGateway calls ever in flight at once
    env,             \* the worker's bindings (c.env)
    host,            \* url.host of the upgrade request of the relay session
    serverWs,        \* readyState of the worker's end of the client socket
    containerWs,     \* readyState of the socket to the backend
    ev,              \* the event dispatched last to a listener of the session
    calls,           \* the send/close calls that listener made, in order
    handler,         \* the worker entry point under way (fetch chain,
                     \* route handler, scheduled, mountR2Storage): its
                     \* position and locals
    trace,           \* the calls it has made on its collaborators, in order
    mounted,         \* the sandbox has the R2 bucket mounted
    received,        \* per socket of the session: the events the runtime
                     \* has queued for its listeners, in arrival order
    dispatched,      \* per socket: how many of them have been dispatched
    sent             \* per socket: the payloads handed to its send, each
                     \* with the number of the event it was sent for

lifecycleVars == <<procs, req, normalOp, env>>
sessionVars == <<received, dispatched, sent>>
relayVars == <<host, serverWs, containerWs, ev, calls, sessionVars>>
workerVars == <<handler, trace, mounted>>
vars == <<procs, req, normalOp, env, host, serverWs, containerWs, ev, calls,
          handler, trace, mounted, received, dispatched, sent>>

Reqs == 1..MaxReqs
NoProc == 0
NoResp == [status |-> 0, body |-> "none"]
NoErr == [name |-> "none", message |-> "none", isError |-> FALSE]

(***************************************************************************)
(* The sandbox (external collaborator, spec section 3 and 6).              *)
(***************************************************************************)
NonTerminal == {"starting", "running"}
Terminal == {"completed", "failed"}

\* sandbox.startProcess(command, {env}): a new process, status starting.
startProcess(ps) ==
    Append(ps, [status |-> "starting", listening |-> FALSE])

\* The runtime observes the process live.
ProcRun(p) ==
    /\ p \in DOMAIN procs
    /\ procs[p].status = "starting"
    /\ procs' = [procs EXCEPT ![p].status = "running"]
    /\ UNCHANGED <<req, normalOp, env, relayVars, workerVars>>

\* The gateway binds its port; one listener per port.
PortOpen(p) ==
    /\ p \in DOMAIN procs
    /\ procs[p].status = "running"
    /\ \A q \in DOMAIN procs : ~procs[q].listening
    /\ procs' = [procs EXCEPT ![p].listening = TRUE]
    /\ UNCHANGED <<req, normalOp, env, relayVars, workerVars>>

\* The process exits on its own: cleanly, or with a non-zero code.
ProcExit(p, st) ==
    /\ p \in DOMAIN procs
    /\ procs[p].status \in NonTerminal
    /\ st \in Terminal
    /\ procs' = [procs EXCEPT ![p] = [status |-> st, listening |-> FALSE]]
    /\ UNCHANGED <<req, normalOp, env, relayVars, workerVars>>

(***************************************************************************)
(* Process Registry Query (spec 4.1).                                      *)
(***************************************************************************)
\* Every process of the model is launched with the gateway command; the
\* most recently started match is preferred, absent when none matches.
findExistingMoltbotProcess(ps) ==
    IF Len(ps) = 0 THEN NoProc ELSE Len(ps)

\* index.ts line 389
isGatewayReady(ps, existingProcess) ==
    /\ existingProcess # NoProc
    /\ ps[existingProcess].status = "running"

\* GatewayState "running" of spec section 3: the port is accepting.
GatewayAccepting(ps) ==
    LET p == findExistingMoltbotProcess(ps) IN
    /\ p # NoProc
    /\ ps[p].status = "running"
    /\ ps[p].listening

InFlight == {"ens_query", "ens_probe", "ens_start", "ens_wait"}

IdleReq ==
    [pc |-> "idle", ws |-> FALSE, html |-> FALSE,
     cold |-> FALSE, proc |-> NoProc, nstart |-> 0, err |-> NoErr,
     resp |-> NoResp, forwarded |-> FALSE]

(***************************************************************************)
(* The catch-all proxy handler, app.all('*') (index.ts 380-596): what it   *)
(* does once its awaited ensureMoltbotGateway call has settled.            *)
(***************************************************************************)
loadingPageHtml == [status |-> 200, body |-> "loadingPageHtml"]

\* A variant of errorMessage that loses the failure's own message.
errorMessageUnknown(error) == "Unknown error"

\* index.ts line 414
errorMessage(error) ==
    IF error.isError THEN error.message ELSE "Unknown error"

\* The failure messages that contain 'heap out of memory' or 'OOM'.
OOMMessages == {"startup: heap out of memory", "startup: OOM"}

\* index.ts lines 416-421
hint(e, error) ==
    IF ~e.ANTHROPIC_API_KEY
    THEN "ANTHROPIC_API_KEY is not set. Run: wrangler secret put ANTHROPIC_API_KEY"
    ELSE IF errorMessage(error) \in OOMMessages
    THEN "Gateway ran out of memory. Try again or check for memory leaks."
    ELSE "Check worker logs with: wrangler tail"

\* index.ts lines 423-430
startupFailureResponse(e, error) ==
    [status |-> 503, body |-> "json",
     error |-> "Moltbot gateway failed to start",
     details |-> errorMessage(error),
     hint |-> hint(e, error)]

\* index.ts line 395: the loading page is served instead of waiting.
servesLoadingPage(ready, isWebSocketRequest, acceptsHtml) ==
    ~ready /\ ~isWebSocketRequest /\ acceptsHtml

\* Lines 433-596: the request goes to the backend, by wsConnect for an
\* upgrade (line 454) and by containerFetch otherwise (line 583).
proxied(rq) ==
    [rq EXCEPT !.pc = "done", !.proc = NoProc, !.forwarded = TRUE,
               !.resp = IF rq.ws THEN [status |-> 101, body |-> "webSocket"]
                                 ELSE [status |-> 200, body |-> "backend"]]

\* A variant of settled in which an awaited failure falls through to the
\* proxy code.
settledFallsThrough(rq, e) ==
    IF rq.resp = loadingPageHtml
    THEN [rq EXCEPT !.pc = "done", !.proc = NoProc, !.err = e]
    ELSE [proxied(rq) EXCEPT !.err = e]

\* The continuation of the caller when ensureMoltbotGateway settles with
\* error e (NoErr: it returned the process).  The background call of lines
\* 399-403 only logs; the awaited call of lines 410-431 answers 503 on a
\* failure and falls through to the proxy code otherwise.
settled(rq, e) ==
    IF rq.resp = loadingPageHtml
    THEN [rq EXCEPT !.pc = "done", !.proc = NoProc, !.err = e]
    ELSE IF e # NoErr
    THEN [rq EXCEPT !.pc = "done", !.proc = NoProc, !.err = e,
                    !.resp = startupFailureResponse(env, e)]
    ELSE proxied(rq)

(***************************************************************************)
(* Gateway Lifecycle Manager: ensureMoltbotGateway (spec 4.2).             *)
(***************************************************************************)
\* A variant of EnsureQuery that starts a process whatever the query finds.
EnsureQueryIgnoresRunning(r) ==
    /\ req[r].pc = "ens_query"
    /\ LET p == findExistingMoltbotProcess(procs) IN
       req' = [req EXCEPT ![r] =
                 IF p = NoProc \/ procs[p].status \in Terminal
                 THEN [@ EXCEPT !.pc = "ens_start", !.cold = TRUE]
                 ELSE [@ EXCEPT !.pc = "ens_start"]]
    /\ UNCHANGED <<procs, normalOp, env, relayVars, workerVars>>

\* Step 1: query the registry.
EnsureQuery(r) ==
    /\ req[r].pc = "ens_query"
    /\ LET p == findExistingMoltbotProcess(procs) IN
       req' = [req EXCEPT ![r] =
                 IF p = NoProc \/ procs[p].status \in Terminal
                 THEN [@ EXCEPT !.pc = "ens_start", !.cold = TRUE]
                 ELSE IF procs[p].status = "running"
                 THEN [@ EXCEPT !.pc = "ens_probe", !.proc = p]
                 ELSE [@ EXCEPT !.pc = "ens_wait", !.proc = p]]
    /\ UNCHANGED <<procs, normalOp, env, relayVars, workerVars>>

\* Step 1, cheap path: a running process whose port accepts is returned.
EnsureProbe(r) ==
    /\ req[r].pc = "ens_probe"
    /\ req' = [req EXCEPT ![r] =
                 IF procs[req[r].proc].listening
                 THEN settled(@, NoErr)
                 ELSE [@ EXCEPT !.pc = "ens_wait"]]
    /\ UNCHANGED <<procs, normalOp, env, relayVars, workerVars>>

\* Step 2: no process, or a failed/completed one: start a new one.
EnsureStart(r) ==
    /\ req[r].pc = "ens_start"
    /\ Len(procs) < MaxProcs
    /\ procs' = startProcess(procs)
    /\ req' = [req EXCEPT ![r].pc = "ens_wait",
                          ![r].proc = Len(procs) + 1,
                          ![r].nstart = @ + 1]
    /\ UNCHANGED <<normalOp, env, relayVars, workerVars>>

StartupError == [name |-> "StartupError", message |-> "startup", isError |-> TRUE]
TimeoutError == [name |-> "TimeoutError", message |-> "timeout", isError |-> TRUE]

\* A variant of WaitOutcome that takes a running process for a ready one.
WaitOutcomeNoPortCheck(p) ==
    IF p.status = "running" THEN NoErr
    ELSE IF p.status \in Terminal THEN StartupError
    ELSE TimeoutError

\* Step 3: await the port of the new or existing process: it accepts, the
\* process has exited before it opened, or the bounded wait elapses.
WaitOutcome(p) ==
    IF p.listening THEN NoErr
    ELSE IF p.status \in Terminal THEN StartupError
    ELSE TimeoutError

EnsureWait(r) ==
    /\ req[r].pc = "ens_wait"
    /\ req' = [req EXCEPT ![r] = settled(@, WaitOutcome(procs[req[r].proc]))]
    /\ UNCHANGED <<procs, normalOp, env, relayVars, workerVars>>

\* Lines 380-411: the request arrives, the registry is queried, and the
\* handler either answers with the loading page and leaves
\* ensureMoltbotGateway running in the background (waitUntil), or awaits it.
\* A slot is taken by a new request once its request has ended; the slots
\* are first taken in order.
ProxyRequest(r, isWebSocketRequest, acceptsHtml) ==
    /\ req[r].pc \in {"idle", "done"}
    /\ \A q \in Reqs : q < r => req[q].pc # "idle"
    /\ LET existingProcess == findExistingMoltbotProcess(procs)
           ready == isGatewayReady(procs, existingProcess)
       IN req' = [req EXCEPT ![r] =
                    [IdleReq EXCEPT !.pc = "ens_query",
                              !.ws = isWebSocketRequest,
                              !.html = acceptsHtml,
                              !.resp = IF servesLoadingPage(ready, isWebSocketRequest,
                                                            acceptsHtml)
                                       THEN loadingPageHtml ELSE NoResp]]
    /\ normalOp' = (normalOp /\ \A q \in Reqs : req[q].pc \notin InFlight)
    /\ UNCHANGED <<procs, env, relayVars, workerVars>>

(***************************************************************************)
(* The /cleanup middleware (index.ts 125-278).                             *)
(***************************************************************************)
CleanupPaths == {"/cleanup", "/cleanup/start", "/cleanup/nuclear"}

\* index.ts line 127
isNuclear(path) == path = "/cleanup/nuclear"

\* A variant of isStart under which every /cleanup path starts a process.
isStartAnyCleanup(path) == path \in CleanupPaths

\* index.ts line 128
isStart(path) == path = "/cleanup/start"

\* Lines 158-183: a kill is issued to each running/starting process of the
\* listing when nuclear; ok is the set of processes whose kill succeeds.
sweep(ps, nuclear, ok) ==
    [p \in DOMAIN ps |->
        IF nuclear /\ ps[p].status \in NonTerminal /\ p \in ok
        THEN [ps[p] EXCEPT !.status = "failed", !.listening = FALSE]
        ELSE ps[p]]

Cleanup(path, ok) ==
    /\ path \in CleanupPaths
    /\ ok \subseteq {p \in DOMAIN procs : procs[p].status \in NonTerminal}
    /\ isNuclear(path) \/ ok = {}
    /\ isStart(path) => Len(procs) < MaxProcs
    /\ LET swept == sweep(procs, isNuclear(path), ok)
       IN procs' = IF isStart(path) THEN startProcess(swept) ELSE swept
    /\ normalOp' = (normalOp /\ path # "/cleanup/start")
    /\ UNCHANGED <<req, env, relayVars, workerVars>>

(***************************************************************************)
(* Specification of the lifecycle and the proxy handler.                   *)
(***************************************************************************)
NoEvent ==
    [sock |-> "none", type |-> "none", data |-> [type |-> "none"],
     code |-> 0, reason |-> <<>>]

Sockets == {"serverWs", "containerWs"}

SessionIdle ==
    /\ received = [s \in Sockets |-> <<>>]
    /\ dispatched = [s \in Sockets |-> 0]
    /\ sent = [s \in Sockets |-> <<>>]

RelayIdle ==
    /\ host = <<>>
    /\ serverWs = "OPEN"
    /\ containerWs = "OPEN"
    /\ ev = NoEvent
    /\ calls = <<>>
    /\ SessionIdle

NoHandler == [pc |-> "none"]

WorkerIdle ==
    /\ handler = NoHandler
    /\ trace = <<>>
    /\ mounted = FALSE

Init ==
    /\ procs = <<>>
    /\ req = [r \in Reqs |-> IdleReq]
    /\ normalOp = TRUE
    /\ env = [ANTHROPIC_API_KEY |-> TRUE]
    /\ RelayIdle
    /\ WorkerIdle

Next ==
    \/ \E p \in 1..MaxProcs : ProcRun(p)
    \/ \E p \in 1..MaxProcs : PortOpen(p)
    \/ \E p \in 1..MaxProcs, st \in Terminal : ProcExit(p, st)
    \/ \E r \in Reqs, w \in BOOLEAN, h \in BOOLEAN : ProxyRequest(r, w, h)
    \/ \E r \in Reqs : EnsureQuery(r)
    \/ \E r \in Reqs : EnsureProbe(r)
    \/ \E r \in Reqs : EnsureStart(r)
    \/ \E r \in Reqs : EnsureWait(r)
    \/ \E path \in CleanupPaths, ok \in SUBSET (1..MaxProcs) : Cleanup(path, ok)

Spec == Init /\ [][Next]_vars

(***************************************************************************)
(* Claims about the lifecycle and the proxy handler.                       *)
(***************************************************************************)
NonTerminalCount ==
    Cardinality({p \in DOMAIN procs : procs[p].status \in NonTerminal})

Blocking(rq) == rq.ws \/ ~rq.html

\* A step in which request r's ensureMoltbotGateway call returns its process.
Returns(r) ==
    /\ req[r].pc \in {"ens_probe", "ens_wait"}
    /\ req'[r].pc = "done"
    /\ req'[r].err = NoErr

\* A step in which request r arrives.
Arrives(r) ==
    /\ req[r].pc \in {"idle", "done"}
    /\ req'[r].pc = "ens_query"

\* C1: a call of ensureGatewayRunning whose registry query finds no gateway
\* process issues exactly one start command; it returns the process only in
\* a step in which that process's port is accepting, and fails otherwise
\* with StartupError or TimeoutError.
C1_ColdStartOnce ==
    /\ [](\A r \in Reqs :
            req[r].cold =>
                /\ req[r].pc = "ens_start" => req[r].nstart = 0
                /\ req[r].pc \in {"ens_wait", "done"} => req[r].nstart = 1
                /\ req[r].pc = "done" /\ req[r].err # NoErr =>
                       req[r].err.name \in {"StartupError", "TimeoutError"})
    /\ [][\A r \in Reqs :
            Returns(r) /\ req[r].cold =>
                /\ req[r].proc \in DOMAIN procs
                /\ procs[req[r].proc].listening]_vars

C1_Witness ==
    \E r \in Reqs :
        /\ req[r].pc = "done"
        /\ req[r].cold
        /\ req[r].nstart = 1
        /\ req[r].err = NoErr

\* C2: a call of ensureGatewayRunning whose registry query finds a running
\* gateway process and whose probe finds its port accepting returns that
\* process at once, and the call issues no start command.
C2_CheapPath ==
    /\ [](\A r \in Reqs : ~req[r].cold => req[r].nstart = 0)
    /\ [][\A r \in Reqs :
            /\ req[r].pc = "ens_probe"
            /\ procs[req[r].proc].status = "running"
            /\ procs[req[r].proc].listening
            /\ req'[r] # req[r]
            => /\ Returns(r)
               /\ req'[r].nstart = 0
               /\ procs' = procs]_vars

C2_Witness ==
    \E r \in Reqs :
        /\ req[r].pc = "done"
        /\ ~req[r].cold
        /\ req[r].nstart = 0
        /\ req[r].err = NoErr
        /\ GatewayAccepting(procs)

C4_LoadingPageWhenNotReady ==
    [][\A r \in Reqs :
         Arrives(r) /\ req'[r].html /\ ~req'[r].ws /\ ~GatewayAccepting(procs)
         => req'[r].resp = loadingPageHtml]_vars

\* C5: a request that is a WebSocket upgrade or does not accept text/html has
\* no response while its ensureGatewayRunning call is in flight, and when the
\* call fails the response is a 503 JSON body with error, details (the
\* failure's message) and hint.
Hints ==
    {"ANTHROPIC_API_KEY is not set. Run: wrangler secret put ANTHROPIC_API_KEY",
     "Gateway ran out of memory. Try again or check for memory leaks.",
     "Check worker logs with: wrangler tail"}

C5_StructuredStartupFailure ==
    \A r \in Reqs :
        Blocking(req[r]) =>
            /\ req[r].pc \in InFlight => req[r].resp = NoResp
            /\ req[r].pc = "done" /\ req[r].err # NoErr =>
                   /\ req[r].resp.status = 503
                   /\ req[r].resp.body = "json"
                   /\ DOMAIN req[r].resp = {"status", "body", "error", "details", "hint"}
                   /\ req[r].resp.error = "Moltbot gateway failed to start"
                   /\ req[r].resp.details = req[r].err.message
                   /\ req[r].resp.hint \in Hints

C5_Witness ==
    \E r \in Reqs :
        /\ Blocking(req[r])
        /\ req[r].pc = "done"
        /\ req[r].err = TimeoutError
        /\ req[r].resp.status = 503

\* C6: a request reaches the backend (wsConnect or containerFetch) only in
\* the step in which its own awaited ensureGatewayRunning call returns; a
\* request answered with the loading page or whose call failed never does.
C6_ForwardOnlyAfterEnsure ==
    /\ [](\A r \in Reqs :
            /\ req[r].forwarded =>
                   /\ req[r].pc = "done"
                   /\ req[r].err = NoErr
                   /\ req[r].resp.status \in {101, 200}
                   /\ req[r].resp.body \in {"webSocket", "backend"}
            /\ req[r].resp = loadingPageHtml => ~req[r].forwarded
            /\ req[r].err # NoErr => ~req[r].forwarded)
    /\ [][\A r \in Reqs :
            ~req[r].forwarded /\ req'[r].forwarded =>
                Returns(r) /\ req[r].resp = NoResp]_vars

C6_Witness ==
    \E r \in Reqs :
        /\ req[r].forwarded
        /\ req[r].ws
        /\ req[r].resp.status = 101

(***************************************************************************)
(* Strings.  A string is a sequence of pieces: a named ASCII literal of n  *)
(* characters, a prefix of one ("cut"), or a run of n characters that take *)
(* w bytes each in UTF-8 and one UTF-16 code unit each.                    *)
(***************************************************************************)
Lit(id, n) == [k |-> "lit", id |-> id, w |-> 1, n |-> n]
Ch(w, n) == [k |-> "ch", id |-> "", w |-> w, n |-> n]

\* String.prototype.length: UTF-16 code units.
RECURSIVE length(_)
length(str) ==
    IF str = <<>> THEN 0 ELSE Head(str).n + length(Tail(str))

\* The size of the string's UTF-8 encoding, as a close frame carries it.
RECURSIVE byteLength(_)
byteLength(str) ==
    IF str = <<>> THEN 0 ELSE Head(str).w * Head(str).n + byteLength(Tail(str))

\* String.prototype.slice(0, end)
RECURSIVE slice(_, _)
slice(str, end) ==
    IF str = <<>> \/ end <= 0 THEN <<>>
    ELSE IF Head(str).n <= end
    THEN <<Head(str)>> \o slice(Tail(str), end - Head(str).n)
    ELSE <<[Head(str) EXCEPT !.n = end,
                             !.k = IF @ = "lit" THEN "cut" ELSE @]>>

\* String.prototype.includes(phrase), for the literal phrases of the model.
includes(str, phrase) ==
    \E i \in DOMAIN str : str[i].k = "lit" /\ str[i].id = phrase

\* A variant of transformErrorMessage that does not know 'gateway token
\* mismatch'.
transformErrorMessageNoMismatch(message, h) ==
    IF includes(message, "gateway token missing")
    THEN <<Lit("Invalid or missing token. Visit https://", 40)>> \o h
         \o <<Lit("?token={REPLACE_WITH_YOUR_TOKEN}", 32)>>
    ELSE IF includes(message, "pairing required")
    THEN <<Lit("Pairing required. Visit https://", 32)>> \o h
         \o <<Lit("/_admin/", 8)>>
    ELSE message

\* index.ts lines 19-29
transformErrorMessage(message, h) ==
    IF includes(message, "gateway token missing")
       \/ includes(message, "gateway token mismatch")
    THEN <<Lit("Invalid or missing token. Visit https://", 40)>> \o h
         \o <<Lit("?token={REPLACE_WITH_YOUR_TOKEN}", 32)>>
    ELSE IF includes(message, "pairing required")
    THEN <<Lit("Pairing required. Visit https://", 32)>> \o h
         \o <<Lit("/_admin/", 8)>>
    ELSE message

(***************************************************************************)
(* Message payloads.  A text payload is the JSON value it parses to (or    *)
(* "notjson") and whether its bytes are those JSON.stringify gives for     *)
(* that value; a binary payload is opaque.                                 *)
(***************************************************************************)
Text(value, canon) == [type |-> "string", value |-> value, canon |-> canon]
Binary == [type |-> "binary"]

\* JSON.stringify
JSONstringify(value) == Text(value, TRUE)

\* Whether JSON.parse(data) followed by parsed.error?.message throws:
\* not JSON, or the value null.
parseThrows(data) == data.value.kind \in {"notjson", "null"}

\* parsed.error?.message is truthy (line 515).
hasErrorMessage(value) ==
    /\ value.kind = "object"
    /\ value.error.kind = "object"
    /\ \/ value.error.message.kind = "string" /\ value.error.message.s # <<>>
       \/ value.error.message.kind = "number" /\ value.error.message.v # 0

\* Lines 506-530: the payload sent on to the client.  transformErrorMessage
\* throws on a message that is no string, and the catch keeps the data.
interceptMessage(data, h) ==
    IF data.type # "string" THEN data
    ELSE IF parseThrows(data) THEN data
    ELSE IF ~hasErrorMessage(data.value) THEN data
    ELSE IF data.value.error.message.kind # "string" THEN data
    ELSE JSONstringify(
             [data.value EXCEPT !.error.message.s = transformErrorMessage(@, h)])

(***************************************************************************)
(* The relay session (index.ts 468-580).                                   *)
(***************************************************************************)
sendCall(sock, data) ==
    [op |-> "send", sock |-> sock, data |-> data, code |-> 0, reason |-> <<>>]
closeCall(sock, code, reason) ==
    [op |-> "close", sock |-> sock, data |-> [type |-> "none"],
     code |-> code, reason |-> reason]

\* WebSocket.close(): an OPEN socket starts closing.
closed(readyState) == IF readyState = "OPEN" THEN "CLOSING" ELSE readyState

\* A variant of relayToContainer that sends whatever the socket's state.
relayToContainerAlways(readyState, data) == <<sendCall("containerWs", data)>>

\* Lines 490-494
relayToContainer(readyState, data) ==
    IF readyState = "OPEN" THEN <<sendCall("containerWs", data)>> ELSE <<>>

\* Lines 532-536
relayToClient(readyState, data) ==
    IF readyState = "OPEN" THEN <<sendCall("serverWs", data)>> ELSE <<>>

\* A variant of clientCloseCall that always closes with the normal code.
clientCloseCallNormal(code, reason) == closeCall("containerWs", 1000, reason)

\* Line 544
clientCloseCall(code, reason) == closeCall("containerWs", code, reason)

\* Lines 552-555
closeReason(reason, h) ==
    LET transformed == transformErrorMessage(reason, h) IN
    IF length(transformed) > 123
    THEN slice(transformed, 120) \o <<Lit("...", 3)>>
    ELSE transformed

\* Line 559
containerCloseCall(code, reason, h) ==
    closeCall("serverWs", code, closeReason(reason, h))

\* serverWs 'message' (lines 482-495)
ServerWsMessage(data) ==
    /\ serverWs # "CLOSED"
    /\ ev' = [NoEvent EXCEPT !.sock = "serverWs", !.type = "message", !.data = data]
    /\ calls' = relayToContainer(containerWs, data)
    /\ UNCHANGED <<host, serverWs, containerWs, lifecycleVars, workerVars,
                 sessionVars>>

\* containerWs 'message' (lines 498-537)
ContainerWsMessage(data) ==
    /\ containerWs # "CLOSED"
    /\ ev' = [NoEvent EXCEPT !.sock = "containerWs", !.type = "message",
                             !.data = data]
    /\ calls' = relayToClient(serverWs, interceptMessage(data, host))
    /\ UNCHANGED <<host, serverWs, containerWs, lifecycleVars, workerVars,
                 sessionVars>>

\* serverWs 'close' (lines 540-545)
ServerWsClose(code, reason) ==
    /\ serverWs # "CLOSED"
    /\ ev' = [NoEvent EXCEPT !.sock = "serverWs", !.type = "close",
                             !.code = code, !.reason = reason]
    /\ calls' = <<clientCloseCall(code, reason)>>
    /\ serverWs' = "CLOSED"
    /\ containerWs' = closed(containerWs)
    /\ UNCHANGED <<host, lifecycleVars, workerVars,
                 sessionVars>>

\* containerWs 'close' (lines 547-560)
ContainerWsClose(code, reason) ==
    /\ containerWs # "CLOSED"
    /\ ev' = [NoEvent EXCEPT !.sock = "containerWs", !.type = "close",
                             !.code = code, !.reason = reason]
    /\ calls' = <<containerCloseCall(code, reason, host)>>
    /\ containerWs' = "CLOSED"
    /\ serverWs' = closed(serverWs)
    /\ UNCHANGED <<host, lifecycleVars, workerVars,
                 sessionVars>>

\* A variant of the serverWs 'error' listener that only logs.
ServerWsErrorLogsOnly ==
    /\ serverWs # "CLOSED"
    /\ ev' = [NoEvent EXCEPT !.sock = "serverWs", !.type = "error"]
    /\ calls' = <<>>
    /\ UNCHANGED <<host, serverWs, containerWs, lifecycleVars, workerVars,
                 sessionVars>>

\* serverWs 'error' (lines 563-566)
ServerWsError ==
    /\ serverWs # "CLOSED"
    /\ ev' = [NoEvent EXCEPT !.sock = "serverWs", !.type = "error"]
    /\ calls' = <<closeCall("containerWs", 1011, <<Lit("Client error", 12)>>)>>
    /\ containerWs' = closed(containerWs)
    /\ UNCHANGED <<host, serverWs, lifecycleVars, workerVars,
                 sessionVars>>

\* containerWs 'error' (lines 568-571)
ContainerWsError ==
    /\ containerWs # "CLOSED"
    /\ ev' = [NoEvent EXCEPT !.sock = "containerWs", !.type = "error"]
    /\ calls' = <<closeCall("serverWs", 1011, <<Lit("Container error", 15)>>)>>
    /\ serverWs' = closed(serverWs)
    /\ UNCHANGED <<host, containerWs, lifecycleVars, workerVars,
                 sessionVars>>

(***************************************************************************)
(* The inputs of a relay session.                                          *)
(***************************************************************************)
Hosts == {<<Lit("example.com", 11)>>, <<Ch(1, 60)>>}

Messages ==
    {<<>>, <<Ch(1, 5)>>, <<Ch(3, 2)>>,
     <<Lit("gateway token missing", 21)>>,
     <<Ch(1, 7), Lit("gateway token mismatch", 22)>>,
     <<Lit("pairing required", 16), Ch(1, 1)>>}

ErrorMessages ==
    {[kind |-> "absent", s |-> <<>>, v |-> 0],
     [kind |-> "number", s |-> <<>>, v |-> 0],
     [kind |-> "number", s |-> <<>>, v |-> 5]}
    \cup {[kind |-> "string", s |-> m, v |-> 0] : m \in Messages}

Errors ==
    {[kind |-> "absent", message |-> [kind |-> "absent", s |-> <<>>, v |-> 0]],
     [kind |-> "null", message |-> [kind |-> "absent", s |-> <<>>, v |-> 0]],
     [kind |-> "string", message |-> [kind |-> "absent", s |-> <<>>, v |-> 0]]}
    \cup {[kind |-> "object", message |-> m] : m \in ErrorMessages}

NoError == [kind |-> "absent", message |-> [kind |-> "absent", s |-> <<>>, v |-> 0]]

Values ==
    {[kind |-> k, error |-> NoError, id |-> 0] : k \in {"notjson", "null", "number"}}
    \cup {[kind |-> "object", error |-> e, id |-> i] : e \in Errors, i \in {1, 2}}

BackendData ==
    {Binary}
    \cup {Text(v, TRUE) : v \in Values}
    \cup {Text(v, FALSE) : v \in {x \in Values : x.kind # "notjson"}}

ClientData ==
    {Binary,
     Text([kind |-> "notjson", error |-> NoError, id |-> 0], TRUE),
     Text([kind |-> "object", error |-> NoError, id |-> 1], FALSE)}

CloseCodes == {1000, 1001}

Reasons ==
    {<<>>, <<Ch(1, 4)>>, <<Ch(1, 123)>>, <<Ch(1, 124)>>, <<Ch(2, 100)>>,
     <<Lit("gateway token missing", 21)>>,
     <<Ch(1, 90), Lit("gateway token mismatch", 22)>>,
     <<Lit("pairing required", 16)>>}

(***************************************************************************)
(* Specification of a relay session, from the accept of both sockets.      *)
(***************************************************************************)
RelayInit ==
    /\ procs = <<>>
    /\ req = [r \in Reqs |-> IdleReq]
    /\ normalOp = TRUE
    /\ env = [ANTHROPIC_API_KEY |-> TRUE]
    /\ host \in Hosts
    /\ serverWs = "OPEN"
    /\ containerWs = "OPEN"
    /\ ev = NoEvent
    /\ calls = <<>>
    /\ SessionIdle
    /\ WorkerIdle

RelayNext ==
    \/ \E data \in ClientData : ServerWsMessage(data)
    \/ \E data \in BackendData : ContainerWsMessage(data)
    \/ \E code \in CloseCodes, reason \in Reasons : ServerWsClose(code, reason)
    \/ \E code \in CloseCodes, reason \in Reasons : ContainerWsClose(code, reason)
    \/ ServerWsError
    \/ ContainerWsError

RelaySpec == RelayInit /\ [][RelayNext]_vars

(***************************************************************************)
(* Claims about the relay session.                                         *)
(***************************************************************************)
ClientMessage == ev.sock = "serverWs" /\ ev.type = "message"
BackendMessage == ev.sock = "containerWs" /\ ev.type = "message"
ClientClose == ev.sock = "serverWs" /\ ev.type = "close"
BackendClose == ev.sock = "containerWs" /\ ev.type = "close"

\* C7: a message received on the client socket is sent verbatim to the
\* backend socket when the backend socket is OPEN and is dropped when it is
\* not: nothing is sent to the backend outside the listener run of the
\* message itself, and the run changes the state of neither socket.
C7_ClientMessageVerbatimOrDropped ==
    /\ [](ClientMessage =>
            calls = IF containerWs = "OPEN"
                    THEN <<sendCall("containerWs", ev.data)>> ELSE <<>>)
    /\ [](\A i \in DOMAIN calls :
            calls[i].op = "send" /\ calls[i].sock = "containerWs" =>
                ClientMessage /\ calls[i].data = ev.data)
    /\ [][ev'.sock = "serverWs" /\ ev'.type = "message" =>
            UNCHANGED <<serverWs, containerWs>>]_vars

C7_Witness ==
    /\ ClientMessage
    /\ ev.data.type = "string"
    /\ containerWs # "OPEN"
    /\ calls = <<>>

TokenHint(h) ==
    <<Lit("Invalid or missing token. Visit https://", 40)>> \o h
    \o <<Lit("?token={REPLACE_WITH_YOUR_TOKEN}", 32)>>

PairingHint(h) ==
    <<Lit("Pairing required. Visit https://", 32)>> \o h \o <<Lit("/_admin/", 8)>>

\* The payload is a JSON object whose error.message is a non-empty string.
HasMessageString(data) ==
    /\ data.type = "string"
    /\ data.value.kind = "object"
    /\ data.value.error.kind = "object"
    /\ data.value.error.message.kind = "string"
    /\ data.value.error.message.s # <<>>

IsTokenError(data) ==
    /\ HasMessageString(data)
    /\ \/ includes(data.value.error.message.s, "gateway token missing")
       \/ includes(data.value.error.message.s, "gateway token mismatch")

IsPairingError(data) ==
    /\ HasMessageString(data)
    /\ ~IsTokenError(data)
    /\ includes(data.value.error.message.s, "pairing required")

\* The JSON value of the payload with only error.message replaced.
WithMessage(data, m) == [data.value EXCEPT !.error.message.s = m]

\* The message listener of the backend socket has sent exactly one payload
\* to the client.
SentToClient ==
    /\ Len(calls) = 1
    /\ calls[1].op = "send"
    /\ calls[1].sock = "serverWs"

\* The client is sent the recognised error with its message replaced by the
\* hint for the request host.
HintDelivered ==
    /\ IsTokenError(ev.data) =>
           calls[1].data.type = "string"
           /\ calls[1].data.value = WithMessage(ev.data, TokenHint(host))
    /\ IsPairingError(ev.data) =>
           calls[1].data.type = "string"
           /\ calls[1].data.value = WithMessage(ev.data, PairingHint(host))

C9_CloseReasonAtMost123Bytes ==
    BackendClose =>
        \A i \in DOMAIN calls :
            calls[i].op = "close" => byteLength(calls[i].reason) <= 123

\* C10 as claimed: a close event on either socket with code c and reason r
\* closes the other socket with code c and the transformed r.
C10_ClosePropagatesTransformed ==
    /\ ClientClose =>
           calls = <<closeCall("containerWs", ev.code,
                               transformErrorMessage(ev.reason, host))>>
    /\ BackendClose =>
           calls = <<closeCall("serverWs", ev.code,
                               transformErrorMessage(ev.reason, host))>>

\* C10 as amended: a close event on either socket with code c and reason r
\* closes the other socket with code c; a close of the client socket passes
\* r on as it is, a close of the backend socket passes on the transformed r,
\* cut to its first 120 characters followed by '...' when it is longer than
\* 123 characters.
C10_ClosePropagatesCode ==
    /\ ClientClose => calls = <<closeCall("containerWs", ev.code, ev.reason)>>
    /\ BackendClose =>
           LET t == transformErrorMessage(ev.reason, host) IN
           calls = <<closeCall("serverWs", ev.code,
                               IF length(t) > 123
                               THEN slice(t, 120) \o <<Lit("...", 3)>>
                               ELSE t)>>

C10_Witness ==
    /\ ClientClose
    /\ ev.code = 1001
    /\ includes(ev.reason, "gateway token missing")
    /\ containerWs = "CLOSING"
    /\ calls = <<closeCall("containerWs", 1001, ev.reason)>>

ClientError == ev.sock = "serverWs" /\ ev.type = "error"
BackendError == ev.sock = "containerWs" /\ ev.type = "error"

\* C11: an error event on either socket of a relay session makes its
\* listener close the other socket with code 1011 and a fixed reason
\* ('Client error' towards the backend, 'Container error' towards the
\* client); the listener makes no other call and ends normally, and the
\* socket that fired the event is left as it was.
C11_ErrorClosesPeerAbnormally ==
    /\ [](ClientError =>
            /\ calls = <<[op |-> "close", sock |-> "containerWs",
                          data |-> [type |-> "none"], code |-> 1011,
                          reason |-> <<Lit("Client error", 12)>>]>>
            /\ containerWs # "OPEN")
    /\ [](BackendError =>
            /\ calls = <<[op |-> "close", sock |-> "serverWs",
                          data |-> [type |-> "none"], code |-> 1011,
                          reason |-> <<Lit("Container error", 15)>>]>>
            /\ serverWs # "OPEN")
    /\ [][ev'.type = "error" =>
            /\ ev'.sock = "serverWs" => serverWs' = serverWs
            /\ ev'.sock = "containerWs" => containerWs' = containerWs]_vars

C11_Witness ==
    /\ ClientError
    /\ serverWs = "OPEN"
    /\ containerWs = "CLOSING"
    /\ Len(calls) = 1
    /\ calls[1].code = 1011

(***************************************************************************)
(* The worker's fetch entry: the middleware chain of the assembled         *)
(* application (index.ts 102-380), one action per middleware or router.    *)
(***************************************************************************)
MaxListed == 2       \* processes in the sandbox when a request arrives

\* The two launch variants of the gateway command (index.ts line 159).
Commands == {"/usr/local/bin/start-openclaw.sh", "openclaw gateway"}

\* index.ts line 191: p.command.includes('gateway')
includesGateway(command) == command = "openclaw gateway"

ListedProcess ==
    {[status |-> "running", listening |-> l, command |-> cm] :
        l \in BOOLEAN, cm \in Commands}
    \cup {[status |-> "starting", listening |-> FALSE, command |-> cm] :
        cm \in Commands}
    \cup {[status |-> st, listening |-> FALSE,
           command |-> "/usr/local/bin/start-openclaw.sh"] : st \in Terminal}

\* The process lists of the sandbox; the gateway port has one listener.
ProcLists ==
    {ps \in UNION {[1..n -> ListedProcess] : n \in 0..MaxListed} :
        Cardinality({p \in DOMAIN ps : ps[p].listening}) <= 1}

Methods == {"GET", "POST"}

Paths ==
    CleanupPaths
    \cup {"/sandbox-health", "/api/status", "/debug/processes", "/api/devices", "/"}

\* index.ts line 126: c.req.path.startsWith('/cleanup')
startsWithCleanup(path) == path \in CleanupPaths

\* url.pathname.startsWith('/debug') (lines 307, 347)
startsWithDebug(path) == path = "/debug/processes"

Context(method, path, acceptsHtml, at) ==
    [pc |-> at, method |-> method, path |-> path, acceptsHtml |-> acceptsHtml,
     by |-> "none", resp |-> NoResp, killed |-> <<>>]

\* Calls on the sandbox and on the other collaborators of a handler.
call(op) == [op |-> op, p |-> NoProc, ok |-> TRUE]
processCall(op, p, ok) == [op |-> op, p |-> p, ok |-> ok]

\* A variant of publicLoop in which a failed kill ends the loop.
RECURSIVE publicLoopAborts(_, _, _)
publicLoopAborts(processes, i, ok) ==
    IF i > Len(processes) THEN [trace |-> <<>>, killed |-> <<>>]
    ELSE IF processes[i].status \in {"running", "starting"}
    THEN IF i \in ok
         THEN LET rest == publicLoopAborts(processes, i + 1, ok) IN
              [trace |-> <<processCall("kill", i, TRUE)>> \o rest.trace,
               killed |-> <<i>> \o rest.killed]
         ELSE [trace |-> <<processCall("kill", i, FALSE)>>, killed |-> <<>>]
    ELSE publicLoopAborts(processes, i + 1, ok)

\* part_000 lines 31-38: the loop of the public /cleanup route from process
\* i on; ok holds the processes whose kill() does not throw.
RECURSIVE publicLoop(_, _, _)
publicLoop(processes, i, ok) ==
    IF i > Len(processes) THEN [trace |-> <<>>, killed |-> <<>>]
    ELSE LET rest == publicLoop(processes, i + 1, ok) IN
         IF processes[i].status \in {"running", "starting"}
         THEN [trace |-> <<processCall("kill", i, i \in ok)>> \o rest.trace,
               killed |-> IF i \in ok THEN <<i>> \o rest.killed ELSE rest.killed]
         ELSE rest

\* index.ts lines 158-183: the loop of the /cleanup middleware from process
\* i on: the logs of every process are read, and a kill is issued when
\* nuclear.
RECURSIVE middlewareLoop(_, _, _, _)
middlewareLoop(processes, i, nuclear, ok) ==
    IF i > Len(processes) THEN [trace |-> <<>>, killed |-> <<>>]
    ELSE LET rest == middlewareLoop(processes, i + 1, nuclear, ok) IN
         IF nuclear /\ processes[i].status \in {"running", "starting"}
         THEN [trace |-> <<processCall("getLogs", i, TRUE),
                           processCall("kill", i, i \in ok)>> \o rest.trace,
               killed |-> IF i \in ok THEN <<i>> \o rest.killed ELSE rest.killed]
         ELSE [trace |-> <<processCall("getLogs", i, TRUE)>> \o rest.trace,
               killed |-> rest.killed]

\* index.ts line 191: processes.find(...)
gatewayProc(processes) ==
    LET found == {p \in DOMAIN processes :
                     /\ includesGateway(processes[p].command)
                     /\ processes[p].status \in {"running", "starting"}}
    IN IF found = {} THEN NoProc
       ELSE CHOOSE p \in found : \A q \in found : p <= q

\* index.ts lines 188-200: the port status shown on the dashboard.
portProbe(processes, after) ==
    LET g == gatewayProc(processes) IN
    IF g = NoProc
    THEN [trace |-> <<>>, portStatus |-> "GATEWAY NOT STARTED"]
    ELSE [trace |-> <<processCall("waitForPort", g, after[g].listening)>>,
          portStatus |-> IF after[g].listening THEN "LISTENING"
                         ELSE "WAITING FOR PORT"]

\* A request enters the chain (app.fetch).
Fetch(method, path, acceptsHtml) ==
    /\ handler = NoHandler
    /\ handler' = Context(method, path, acceptsHtml, "sandboxMw")
    /\ UNCHANGED <<trace, mounted, lifecycleVars, relayVars>>

\* index.ts lines 120-281: the sandbox middleware, which answers every
\* /cleanup path itself.  listOk: listProcesses() does not throw.
SandboxMiddleware(listOk, ok) ==
    /\ handler.pc = "sandboxMw"
    /\ ok \subseteq {p \in DOMAIN procs : procs[p].status \in NonTerminal}
    /\ IF startsWithCleanup(handler.path)
       THEN LET nuclear == isNuclear(handler.path)
                start == isStart(handler.path)
                loop == middlewareLoop(procs, 1, nuclear, ok)
                swept == sweep(procs, nuclear, ok)
                probe == portProbe(procs, swept)
                started == IF start THEN <<call("startProcess")>> ELSE <<>>
            IN /\ (nuclear /\ listOk) \/ ok = {}
               /\ IF listOk
                  THEN /\ trace' = trace \o started \o <<call("listProcesses")>>
                                   \o loop.trace \o probe.trace
                       /\ procs' = IF start THEN startProcess(swept) ELSE swept
                       /\ handler' = [handler EXCEPT
                              !.pc = "done", !.by = "sandboxMw",
                              !.killed = loop.killed,
                              !.resp = [status |-> 200, body |-> "rescueDashboard",
                                        portStatus |-> probe.portStatus]]
                  ELSE /\ trace' = trace \o started
                                   \o <<processCall("listProcesses", NoProc, FALSE)>>
                       /\ procs' = IF start THEN startProcess(procs) ELSE procs
                       /\ handler' = [handler EXCEPT
                              !.pc = "done", !.by = "sandboxMw",
                              !.resp = [status |-> 200,
                                        body |-> "Rescue operation failed"]]
       ELSE /\ listOk /\ ok = {}
            /\ handler' = [handler EXCEPT !.pc = "publicRoutes"]
            /\ UNCHANGED <<trace, procs>>
    /\ UNCHANGED <<req, normalOp, env, mounted, relayVars>>

\* part_000 lines 25-65: publicRoutes.get('/cleanup')
publicCleanup(ctx, processes, listOk, ok) ==
    IF listOk
    THEN LET loop == publicLoop(processes, 1, ok) IN
         [trace |-> <<call("listProcesses")>> \o loop.trace,
          procs |-> sweep(processes, TRUE, ok),
          ctx |-> [ctx EXCEPT !.pc = "done", !.by = "publicRoutes./cleanup",
                              !.killed = loop.killed,
                              !.resp = [status |-> 200, body |-> "Cleanup Complete"]]]
    ELSE [trace |-> <<processCall("listProcesses", NoProc, FALSE)>>,
          procs |-> processes,
          ctx |-> [ctx EXCEPT !.pc = "done", !.by = "publicRoutes./cleanup",
                              !.resp = [status |-> 200, body |-> "Cleanup failed"]]]

\* A variant of apiStatus that takes a running process for a responding one.
apiStatusNoProbe(ctx, processes, listOk) ==
    LET process == findExistingMoltbotProcess(processes)
        state == IF ~listOk THEN "error"
                 ELSE IF process = NoProc THEN "not_running"
                 ELSE IF processes[process].status = "running" THEN "running"
                 ELSE "not_responding"
    IN [trace |-> <<processCall("findExistingMoltbotProcess", NoProc, listOk)>>,
        procs |-> processes,
        ctx |-> [ctx EXCEPT !.pc = "done", !.by = "publicRoutes./api/status",
                            !.resp = [status |-> 200, body |-> "json",
                                      ok |-> state = "running", state |-> state,
                                      processId |-> process]]]

\* part_000 lines 78-102: publicRoutes.get('/api/status').  listOk: the
\* registry query does not throw.
apiStatus(ctx, processes, listOk) ==
    LET process == findExistingMoltbotProcess(processes)
        answer(t, r) ==
            [trace |-> t, procs |-> processes,
             ctx |-> [ctx EXCEPT !.pc = "done", !.by = "publicRoutes./api/status",
                                 !.resp = r]]
    IN IF ~listOk
       THEN answer(<<processCall("findExistingMoltbotProcess", NoProc, FALSE)>>,
                   [status |-> 200, body |-> "json", ok |-> FALSE,
                    state |-> "error", processId |-> NoProc])
       ELSE IF process = NoProc
       THEN answer(<<call("findExistingMoltbotProcess")>>,
                   [status |-> 200, body |-> "json", ok |-> FALSE,
                    state |-> "not_running", processId |-> NoProc])
       ELSE IF processes[process].listening
       THEN answer(<<call("findExistingMoltbotProcess"),
                     processCall("waitForPort", process, TRUE)>>,
                   [status |-> 200, body |-> "json", ok |-> TRUE,
                    state |-> "running", processId |-> process])
       ELSE answer(<<call("findExistingMoltbotProcess"),
                     processCall("waitForPort", process, FALSE)>>,
                   [status |-> 200, body |-> "json", ok |-> FALSE,
                    state |-> "not_responding", processId |-> process])

\* part_000 lines 15-21: publicRoutes.get('/sandbox-health')
sandboxHealth(ctx, processes) ==
    [trace |-> <<>>, procs |-> processes,
     ctx |-> [ctx EXCEPT !.pc = "done", !.by = "publicRoutes./sandbox-health",
                         !.resp = [status |-> 200, body |-> "json"]]]

\* The router of the public routes (part_000 12-157, mounted at index.ts
\* line 292): the first route that matches method and path answers,
\* otherwise the chain goes on.
PublicRoutes(listOk, ok) ==
    /\ handler.pc = "publicRoutes"
    /\ ok \subseteq {p \in DOMAIN procs : procs[p].status \in NonTerminal}
    /\ LET get(path) == handler.method = "GET" /\ handler.path = path
           out == IF get("/sandbox-health") THEN sandboxHealth(handler, procs)
                  ELSE IF get("/cleanup")
                  THEN publicCleanup(handler, procs, listOk, ok)
                  ELSE IF get("/api/status") THEN apiStatus(handler, procs, listOk)
                  ELSE [trace |-> <<>>, procs |-> procs,
                        ctx |-> [handler EXCEPT !.pc = "validateEnv"]]
       IN /\ (get("/cleanup") /\ listOk) \/ ok = {}
          /\ get("/cleanup") \/ get("/api/status") \/ listOk
          /\ trace' = trace \o out.trace
          /\ procs' = out.procs
          /\ handler' = out.ctx
    /\ UNCHANGED <<req, normalOp, env, mounted, relayVars>>

\* A request dispatched to the router of the public routes alone.
PublicRoutesRequest(method, path) ==
    /\ handler = NoHandler
    /\ handler' = Context(method, path, FALSE, "publicRoutes")
    /\ UNCHANGED <<trace, mounted, lifecycleVars, relayVars>>

(***************************************************************************)
(* Specification of the process sweeps: the public /cleanup route on its   *)
(* own, and /cleanup/nuclear through the chain.                            *)
(***************************************************************************)
SweepInit ==
    /\ procs \in ProcLists
    /\ req = [r \in Reqs |-> IdleReq]
    /\ normalOp = TRUE
    /\ env = [ANTHROPIC_API_KEY |-> TRUE]
    /\ RelayIdle
    /\ WorkerIdle

SweepNext ==
    \/ PublicRoutesRequest("GET", "/cleanup")
    \/ \E listOk \in BOOLEAN, ok \in SUBSET (1..MaxListed) : PublicRoutes(listOk, ok)
    \/ \E acceptsHtml \in BOOLEAN : Fetch("GET", "/cleanup/nuclear", acceptsHtml)
    \/ \E listOk \in BOOLEAN, ok \in SUBSET (1..MaxListed) :
          SandboxMiddleware(listOk, ok)

SweepSpec == SweepInit /\ [][SweepNext]_vars

\* The kill calls of the trace, in order.
Kills == SelectSeq(trace, LAMBDA t : t.op = "kill")

\* The process list was obtained, and the loop over it has run.
Swept ==
    /\ handler.pc = "done"
    /\ handler.by \in {"publicRoutes./cleanup", "sandboxMw"}
    /\ \E i \in DOMAIN trace : trace[i].op = "listProcesses" /\ trace[i].ok

\* C12: a sweep issues exactly one kill to every process that was listed as
\* running or starting, in list order whatever the outcome of the earlier
\* kills, and none to a completed or failed process; the killed ids are
\* exactly those whose kill succeeded, in the same order.
C12_SweepKillsNonTerminal ==
    [][handler.pc # "done" /\ Swept' =>
         /\ \A p \in DOMAIN procs :
              Cardinality({i \in DOMAIN Kills' : Kills'[i].p = p})
                  = IF procs[p].status \in {"running", "starting"} THEN 1 ELSE 0
         /\ \A i, j \in DOMAIN Kills' : i < j => Kills'[i].p < Kills'[j].p
         /\ handler'.killed
                = SelectSeq([i \in DOMAIN Kills' |-> Kills'[i].p],
                            LAMBDA p : \E i \in DOMAIN Kills' :
                                          Kills'[i].p = p /\ Kills'[i].ok)
         /\ \A p \in DOMAIN procs :
              procs'[p].status = IF \E i \in DOMAIN Kills' :
                                       Kills'[i].p = p /\ Kills'[i].ok
                                 THEN "failed" ELSE procs[p].status]_vars

\* A sweep in which the first kill failed and a later one succeeded.
C12_Witness ==
    /\ Swept
    /\ handler.by = "publicRoutes./cleanup"
    /\ Len(Kills) = 2
    /\ ~Kills[1].ok
    /\ Kills[2].ok
    /\ handler.killed = <<Kills[2].p>>

(***************************************************************************)
(* The rest of the chain: configuration validation, access, the protected  *)
(* routers and the catch-all proxy handler (index.ts 302-596).             *)
(***************************************************************************)
\* The bindings read by the chain.  A variable that is set is TRUE; DEV_MODE
\* and E2E_TEST_MODE are TRUE when they are 'true'.  No AI provider other
\* than ANTHROPIC_API_KEY is configured.
Envs ==
    [DEV_MODE : BOOLEAN, E2E_TEST_MODE : BOOLEAN,
     CF_ACCESS_TEAM_DOMAIN : BOOLEAN, CF_ACCESS_AUD : BOOLEAN,
     ANTHROPIC_API_KEY : BOOLEAN]

\* index.ts lines 37-76
validateRequiredEnv(e) ==
    LET isTestMode == e.DEV_MODE \/ e.E2E_TEST_MODE
        hasAnthropicKey == e.ANTHROPIC_API_KEY
    IN (IF ~isTestMode /\ ~e.CF_ACCESS_TEAM_DOMAIN
        THEN <<"CF_ACCESS_TEAM_DOMAIN">> ELSE <<>>)
       \o (IF ~isTestMode /\ ~e.CF_ACCESS_AUD
           THEN <<"CF_ACCESS_AUD">> ELSE <<>>)
       \o (IF ~hasAnthropicKey
           THEN <<"ANTHROPIC_API_KEY, OPENAI_API_KEY, or CLOUDFLARE_AI_GATEWAY_API_KEY + CF_AI_GATEWAY_ACCOUNT_ID + CF_AI_GATEWAY_GATEWAY_ID">>
           ELSE <<>>)

\* index.ts lines 317-337: the answer to a request when settings are missing.
configErrorResponse(missingVars, acceptsHtml) ==
    IF acceptsHtml
    THEN [status |-> 503, body |-> "configErrorHtml", missing |-> missingVars]
    ELSE [status |-> 503, body |-> "json", error |-> "Configuration error",
          missing |-> missingVars]

\* A variant of ValidateEnv that lets every request through.
ValidateEnvSkipped ==
    /\ handler.pc = "validateEnv"
    /\ handler' = [handler EXCEPT !.pc = "access"]
    /\ UNCHANGED <<trace, mounted, lifecycleVars, relayVars>>

\* index.ts lines 303-340
ValidateEnv ==
    /\ handler.pc = "validateEnv"
    /\ LET missingVars == validateRequiredEnv(env) IN
       handler' =
          IF startsWithDebug(handler.path) \/ env.DEV_MODE
          THEN [handler EXCEPT !.pc = "access"]
          ELSE IF Len(missingVars) > 0
          THEN [handler EXCEPT !.pc = "done", !.by = "validateEnv",
                               !.resp = configErrorResponse(missingVars,
                                                            handler.acceptsHtml)]
          ELSE [handler EXCEPT !.pc = "access"]
    /\ UNCHANGED <<trace, mounted, lifecycleVars, relayVars>>

\* index.ts lines 343-359.  The access middleware itself is outside the
\* source: it lets the request through or answers it.
Access(authenticated) ==
    /\ handler.pc = "access"
    /\ startsWithDebug(handler.path) => authenticated
    /\ handler' =
          IF authenticated THEN [handler EXCEPT !.pc = "routes"]
          ELSE [handler EXCEPT !.pc = "done", !.by = "access",
                               !.resp = [status |-> 401, body |-> "access"]]
    /\ trace' = IF startsWithDebug(handler.path) THEN trace
                ELSE Append(trace, processCall("createAccessMiddleware",
                                               NoProc, authenticated))
    /\ UNCHANGED <<mounted, lifecycleVars, relayVars>>

\* index.ts lines 362-374: the protected routers.  DEBUG_ROUTES is read
\* here; debugRoutes: it is 'true'.
Routes(debugRoutes) ==
    /\ handler.pc = "routes"
    /\ startsWithDebug(handler.path) \/ ~debugRoutes
    /\ handler' =
          IF handler.path = "/api/devices"
          THEN [handler EXCEPT !.pc = "done", !.by = "api",
                               !.resp = [status |-> 200, body |-> "api"]]
          ELSE IF startsWithDebug(handler.path)
          THEN IF debugRoutes
               THEN [handler EXCEPT !.pc = "done", !.by = "debug",
                                    !.resp = [status |-> 200, body |-> "debug",
                                              DEBUG_ROUTES |-> debugRoutes]]
               ELSE [handler EXCEPT !.pc = "done", !.by = "debug",
                                    !.resp = [status |-> 404, body |-> "json"]]
          ELSE [handler EXCEPT !.pc = "proxy"]
    /\ UNCHANGED <<trace, mounted, lifecycleVars, relayVars>>

\* Values of MOLTBOT_GATEWAY_TOKEN and of the token query parameter.
NoToken == "(absent)"
GatewayTokens == {NoToken, "", "secret"}
SearchTokens == {NoToken, "", "user"}

\* A variant of injectToken that overrides the token of the request.
injectTokenAlways(gatewayToken, searchToken) ==
    IF gatewayToken \notin {NoToken, ""} THEN gatewayToken ELSE searchToken

\* index.ts lines 446-451: the token parameter of wsRequest.
injectToken(gatewayToken, searchToken) ==
    IF gatewayToken \notin {NoToken, ""} /\ searchToken = NoToken
    THEN gatewayToken
    ELSE searchToken

\* index.ts lines 380-596: the catch-all handler as a whole.  error is the
\* outcome of the awaited ensureMoltbotGateway; MOLTBOT_GATEWAY_TOKEN is
\* read here.
ProxyHandler(isWebSocketRequest, gatewayToken, searchToken, error) ==
    /\ handler.pc = "proxy"
    /\ LET existingProcess == findExistingMoltbotProcess(procs)
           ready == isGatewayReady(procs, existingProcess)
           answer(t, r) ==
               /\ trace' = trace \o <<call("findExistingMoltbotProcess")>> \o t
               /\ handler' = [handler EXCEPT !.pc = "done", !.by = "proxy",
                                             !.resp = r]
       IN IF servesLoadingPage(ready, isWebSocketRequest, handler.acceptsHtml)
          THEN /\ error = NoErr /\ gatewayToken = NoToken /\ searchToken = NoToken
               /\ answer(<<call("ensureMoltbotGateway")>>, loadingPageHtml)
          ELSE IF error # NoErr
          THEN /\ gatewayToken = NoToken /\ searchToken = NoToken
               /\ answer(<<processCall("ensureMoltbotGateway", NoProc, FALSE)>>,
                         startupFailureResponse(env, error))
          ELSE IF isWebSocketRequest
          THEN answer(<<call("ensureMoltbotGateway"), call("wsConnect")>>,
                      [status |-> 101, body |-> "webSocket",
                       gatewayToken |-> gatewayToken,
                       searchToken |-> searchToken,
                       wsRequest |-> injectToken(gatewayToken, searchToken)])
          ELSE /\ gatewayToken = NoToken /\ searchToken = NoToken
               /\ answer(<<call("ensureMoltbotGateway"), call("containerFetch")>>,
                         [status |-> 200, body |-> "backend"])
    /\ UNCHANGED <<mounted, lifecycleVars, relayVars>>

(***************************************************************************)
(* Specification of the fetch entry: one request through the chain, for    *)
(* every process list and every configuration.                             *)
(***************************************************************************)
MaxAppListed == 1    \* processes in the sandbox when the request arrives

AppInit ==
    /\ procs \in {ps \in ProcLists : Len(ps) <= MaxAppListed}
    /\ req = [r \in Reqs |-> IdleReq]
    /\ normalOp = TRUE
    /\ env \in Envs
    /\ RelayIdle
    /\ WorkerIdle

AppNext ==
    \/ \E method \in Methods, path \in Paths, acceptsHtml \in BOOLEAN :
          Fetch(method, path, acceptsHtml)
    \/ \E listOk \in BOOLEAN, ok \in SUBSET (1..MaxListed) :
          SandboxMiddleware(listOk, ok)
    \/ \E listOk \in BOOLEAN, ok \in SUBSET (1..MaxListed) : PublicRoutes(listOk, ok)
    \/ ValidateEnv
    \/ \E authenticated \in BOOLEAN : Access(authenticated)
    \/ \E debugRoutes \in BOOLEAN : Routes(debugRoutes)
    \/ \E isWebSocketRequest \in BOOLEAN, gatewayToken \in GatewayTokens,
          searchToken \in SearchTokens,
          error \in {NoErr, StartupError, TimeoutError} :
          ProxyHandler(isWebSocketRequest, gatewayToken, searchToken, error)

AppSpec == AppInit /\ [][AppNext]_vars

(***************************************************************************)
(* Claims about the fetch entry.                                           *)
(***************************************************************************)
\* The step in which the request is answered.
Answered == handler.pc # "done" /\ handler'.pc = "done"

\* The trace holds a call of one of the operations ops.
Called(ops) == \E i \in DOMAIN trace : trace[i].op \in ops

\* C13: when a GET /cleanup request has been answered by the assembled
\* application, a kill has been issued to every process that was running or
\* starting.
C13_GetCleanupSweeps ==
    [][Answered /\ handler'.method = "GET" /\ handler'.path = "/cleanup" =>
         \A p \in DOMAIN procs :
             procs[p].status \in {"running", "starting"} =>
                 \E i \in DOMAIN trace' :
                     trace'[i].op = "kill" /\ trace'[i].p = p]_vars

\* C14: a /cleanup request is answered by the sandbox middleware, before
\* configuration validation and access run, without a call of
\* ensureMoltbotGateway and without a port check (waitForPort).
C14_CleanupNoReadinessCheck ==
    handler.pc = "done" /\ startsWithCleanup(handler.path) =>
        /\ handler.by = "sandboxMw"
        /\ ~Called({"ensureMoltbotGateway", "waitForPort"})

\* C17: the upgrade request forwarded to the backend carries the configured
\* gateway token when one is configured and the query has no token
\* parameter, its own token parameter when it has one, and no token when
\* none is configured and it has none.
C17_TokenInjection ==
    handler.pc = "done" /\ handler.by = "proxy" /\ handler.resp.status = 101 =>
        LET configured == handler.resp.gatewayToken \in {"secret"}
            hasToken == handler.resp.searchToken \in {"", "user"}
        IN /\ Called({"wsConnect"})
           /\ configured /\ ~hasToken =>
                  handler.resp.wsRequest = handler.resp.gatewayToken
           /\ hasToken => handler.resp.wsRequest = handler.resp.searchToken
           /\ ~configured /\ ~hasToken => handler.resp.wsRequest = NoToken

C17_Witness ==
    /\ handler.pc = "done"
    /\ handler.by = "proxy"
    /\ handler.resp.status = 101
    /\ handler.resp.gatewayToken = "secret"
    /\ handler.resp.searchToken = NoToken
    /\ handler.resp.wsRequest = "secret"

\* The settings that are required and missing, for a request outside /debug
\* with DEV_MODE not 'true'.
Missing ==
    {v \in {"CF_ACCESS_TEAM_DOMAIN", "CF_ACCESS_AUD"} :
        ~env.E2E_TEST_MODE /\ ~env[v]}
    \cup (IF env.ANTHROPIC_API_KEY THEN {}
          ELSE {"ANTHROPIC_API_KEY, OPENAI_API_KEY, or CLOUDFLARE_AI_GATEWAY_API_KEY + CF_AI_GATEWAY_ACCOUNT_ID + CF_AI_GATEWAY_GATEWAY_ID"})

Unconfigured(ctx) ==
    /\ ~startsWithDebug(ctx.path)
    /\ ~env.DEV_MODE
    /\ Missing # {}

ConfigError ==
    /\ handler.by = "validateEnv"
    /\ handler.resp.status = 503
    /\ {handler.resp.missing[i] : i \in DOMAIN handler.resp.missing} = Missing
    /\ Len(handler.resp.missing) = Cardinality(Missing)
    /\ trace = <<>>

\* C18 as claimed: every request outside /debug with DEV_MODE not 'true' is
\* answered, when a required setting is missing, with a 503 that carries the
\* missing settings, before any call of the proxy handler.
C18_ConfigErrorForEveryRequest ==
    handler.pc = "done" /\ Unconfigured(handler) => ConfigError

\* C18 as amended: every request outside /debug with DEV_MODE not 'true'
\* that is not answered by the /cleanup middleware or by a public route is
\* answered, when a required setting is missing, with a 503 that carries the
\* missing settings, before any call of the proxy handler; no request with a
\* missing setting reaches the proxy handler.
C18_ConfigErrorBeforeProxy ==
    /\ handler.pc = "done" /\ Unconfigured(handler)
       /\ handler.by \notin {"sandboxMw", "publicRoutes./sandbox-health",
                             "publicRoutes./cleanup", "publicRoutes./api/status"}
       => ConfigError
    /\ handler.pc # "none" /\ Unconfigured(handler) =>
           /\ handler.pc \notin {"access", "routes", "proxy"}
           /\ ~Called({"ensureMoltbotGateway", "wsConnect", "containerFetch"})

C18_Witness ==
    /\ handler.pc = "done"
    /\ handler.path = "/"
    /\ ~handler.acceptsHtml
    /\ ~env.DEV_MODE
    /\ handler.resp.status = 503
    /\ handler.resp.body = "json"
    /\ Len(handler.resp.missing) = 3

\* C19: GET /api/status issues no start command; it reports error when the
\* registry query fails, not_running when no gateway process is found,
\* running when the port of the process found accepts, and not_responding
\* when it does not.
C19_StatusNeverStarts ==
    handler.pc = "done" /\ handler.by = "publicRoutes./api/status" =>
        /\ ~Called({"startProcess", "ensureMoltbotGateway"})
        /\ handler.resp.status = 200
        /\ handler.resp.state =
              IF ~trace[1].ok THEN "error"
              ELSE IF Len(procs) = 0 THEN "not_running"
              ELSE IF procs[Len(procs)].listening THEN "running"
              ELSE "not_responding"
        /\ handler.resp.ok = (handler.resp.state = "running")

C19_Witness ==
    /\ handler.pc = "done"
    /\ handler.by = "publicRoutes./api/status"
    /\ Len(procs) = 1
    /\ procs[1].status = "running"
    /\ ~procs[1].listening
    /\ handler.resp.state = "not_responding"

(***************************************************************************)
(* The worker's scheduled entry (index.ts 602-624).                        *)
(***************************************************************************)
\* The results of syncToR2 (spec 4.5): it never throws, and a failure is
\* held by the result.
SyncResults ==
    {[success |-> TRUE, error |-> "none"],
     [success |-> FALSE, error |-> "Sync failed"],
     [success |-> FALSE, error |-> "R2 storage is not configured"]}

NoResult == [success |-> FALSE, error |-> "(no result)"]

\* The cron trigger invokes scheduled().
Scheduled ==
    /\ handler = NoHandler
    /\ handler' = [pc |-> "query", entry |-> "scheduled", outcome |-> "pending",
                   result |-> NoResult]
    /\ UNCHANGED <<trace, mounted, lifecycleVars, relayVars>>

\* A variant of the tick's registry query that goes on to the sync whatever
\* it found.
ScheduledQueryAlwaysSyncs(queryOk) ==
    /\ handler.pc = "query"
    /\ handler.entry = "scheduled"
    /\ trace' = trace \o <<processCall("findExistingMoltbotProcess", NoProc, queryOk)>>
    /\ handler' = IF ~queryOk
                  THEN [handler EXCEPT !.pc = "done", !.outcome = "thrown"]
                  ELSE [handler EXCEPT !.pc = "sync"]
    /\ UNCHANGED <<mounted, lifecycleVars, relayVars>>

\* index.ts lines 610-614: the registry query, awaited outside any try.
\* queryOk: findExistingMoltbotProcess does not throw.
ScheduledQuery(queryOk) ==
    /\ handler.pc = "query"
    /\ handler.entry = "scheduled"
    /\ trace' = trace \o <<processCall("findExistingMoltbotProcess", NoProc, queryOk)>>
    /\ handler' =
          IF ~queryOk
          THEN [handler EXCEPT !.pc = "done", !.outcome = "thrown"]
          ELSE IF findExistingMoltbotProcess(procs) = NoProc
          THEN [handler EXCEPT !.pc = "done", !.outcome = "returned"]
          ELSE [handler EXCEPT !.pc = "sync"]
    /\ UNCHANGED <<mounted, lifecycleVars, relayVars>>

\* index.ts lines 616-623: the sync, and the log of its result.
ScheduledSync(result) ==
    /\ handler.pc = "sync"
    /\ handler.entry = "scheduled"
    /\ trace' = trace \o <<processCall("syncToR2", NoProc, result.success)>>
    /\ handler' = [handler EXCEPT !.pc = "done", !.outcome = "returned",
                                  !.result = result]
    /\ UNCHANGED <<mounted, lifecycleVars, relayVars>>

CronInit ==
    /\ procs \in ProcLists
    /\ req = [r \in Reqs |-> IdleReq]
    /\ normalOp = TRUE
    /\ env = [ANTHROPIC_API_KEY |-> TRUE]
    /\ RelayIdle
    /\ WorkerIdle

CronNext ==
    \/ Scheduled
    \/ \E queryOk \in BOOLEAN : ScheduledQuery(queryOk)
    \/ \E result \in SyncResults : ScheduledSync(result)

CronSpec == CronInit /\ [][CronNext]_vars

\* The syncToR2 calls of the tick.
Flushes == SelectSeq(trace, LAMBDA t : t.op = "syncToR2")

TickDone == handler.pc = "done" /\ handler.entry = "scheduled"

\* The registry query of the tick returned.
QueryReturned ==
    /\ Len(trace) >= 1
    /\ trace[1].op = "findExistingMoltbotProcess"
    /\ trace[1].ok

\* C15: a tick whose registry query finds no gateway process ends normally
\* without a call of syncToR2; a tick whose query finds one calls syncToR2
\* exactly once; no tick ever calls it twice.
C15_SyncOnlyWhenGatewayExists ==
    /\ Len(Flushes) <= 1
    /\ TickDone /\ QueryReturned =>
         /\ handler.outcome = "returned"
         /\ Len(procs) = 0 => Len(Flushes) = 0 /\ handler.result = NoResult
         /\ Len(procs) > 0 => Len(Flushes) = 1

C15_Witness ==
    /\ TickDone
    /\ Len(procs) = 2
    /\ procs[2].status = "running"
    /\ Len(Flushes) = 1
    /\ ~handler.result.success

\* C16: every tick ends normally, whichever sandbox call failed during it.
C16_TickNeverThrows == TickDone => handler.outcome = "returned"

(***************************************************************************)
(* mountR2Storage (gateway/r2.ts).                                         *)
(***************************************************************************)
MaxMounts == 3       \* calls of mountR2Storage in a row

\* The credentials read by mountR2Storage; a variable that is set is TRUE.
R2Envs ==
    [R2_ACCESS_KEY_ID : BOOLEAN, R2_SECRET_ACCESS_KEY : BOOLEAN,
     CF_ACCOUNT_ID : BOOLEAN]

MountMessages ==
    {<<>>, <<Ch(1, 12)>>,
     <<Ch(1, 8), Lit("already mounted", 15)>>,
     <<Lit("Device or resource busy", 23)>>,
     <<Lit("InvalidMountConfigError", 23), Ch(1, 10)>>}

\* What a call of sandbox.mountBucket does: it returns, or throws an Error
\* or another value with the given text.
Returned == [threw |-> FALSE, isError |-> FALSE, message |-> <<>>]
MountOutcomes ==
    {Returned}
    \cup {[threw |-> TRUE, isError |-> b, message |-> m] :
            b \in BOOLEAN, m \in MountMessages}

\* r2.ts lines 38-42
treatedAsMounted(message) ==
    \/ includes(message, "already mounted")
    \/ includes(message, "Device or resource busy")
    \/ includes(message, "InvalidMountConfigError")

\* The sandbox: mounting a bucket that is mounted returns or fails with an
\* error of the already-mounted kind.
mountBucket(isMounted, outcome) ==
    isMounted /\ outcome.threw => treatedAsMounted(outcome.message)

\* A variant of mountR2Storage for which only a mount that returned counts.
mountR2StorageStrict(e, outcome) ==
    IF ~e.R2_ACCESS_KEY_ID \/ ~e.R2_SECRET_ACCESS_KEY \/ ~e.CF_ACCOUNT_ID
    THEN [trace |-> <<>>, result |-> FALSE]
    ELSE [trace |-> <<processCall("mountBucket", NoProc, ~outcome.threw)>>,
          result |-> ~outcome.threw]

\* r2.ts lines 12-51; outcome is what the call of mountBucket does.
mountR2Storage(e, outcome) ==
    IF ~e.R2_ACCESS_KEY_ID \/ ~e.R2_SECRET_ACCESS_KEY \/ ~e.CF_ACCOUNT_ID
    THEN [trace |-> <<>>, result |-> FALSE]
    ELSE IF ~outcome.threw
    THEN [trace |-> <<call("mountBucket")>>, result |-> TRUE]
    ELSE LET errorText == outcome.message IN
         [trace |-> <<processCall("mountBucket", NoProc, FALSE)>>,
          result |-> treatedAsMounted(errorText)]

\* A call of mountR2Storage, after the earlier ones have returned.
MountR2Storage(outcome) ==
    LET earlier == IF handler = NoHandler
                   THEN [results |-> <<>>, succeeded |-> <<>>]
                   ELSE [results |-> handler.results,
                         succeeded |-> handler.succeeded]
        out == mountR2Storage(env, outcome)
    IN /\ handler.pc \in {"none", "done"}
       /\ Len(earlier.results) < MaxMounts
       /\ mountBucket(mounted, outcome)
       /\ out.trace = <<>> => outcome = Returned
       /\ trace' = out.trace
       /\ mounted' = (mounted \/ (out.trace # <<>> /\ ~outcome.threw))
       /\ handler' = [pc |-> "done", entry |-> "mountR2Storage",
                      outcome |-> "returned", last |-> outcome,
                      results |-> Append(earlier.results, out.result),
                      succeeded |-> Append(earlier.succeeded,
                                           out.trace # <<>> /\ ~outcome.threw)]
       /\ UNCHANGED <<lifecycleVars, relayVars>>

MountInit ==
    /\ procs = <<>>
    /\ req = [r \in Reqs |-> IdleReq]
    /\ normalOp = TRUE
    /\ env \in R2Envs
    /\ RelayIdle
    /\ handler = NoHandler
    /\ trace = <<>>
    /\ mounted \in BOOLEAN

MountNext == \E outcome \in MountOutcomes : MountR2Storage(outcome)

MountSpec == MountInit /\ [][MountNext]_vars

Configured ==
    env.R2_ACCESS_KEY_ID /\ env.R2_SECRET_ACCESS_KEY /\ env.CF_ACCOUNT_ID

MaxEvents == 4       \* messages, closes and failures the peers produce

Peer == [serverWs |-> "containerWs", containerWs |-> "serverWs"]

SessionClientData ==
    {Binary, Text([kind |-> "notjson", error |-> NoError, id |-> 0], TRUE)}

SessionBackendData ==
    {Binary,
     Text([kind |-> "object",
           error |-> [kind |-> "object",
                      message |-> [kind |-> "string",
                                   s |-> <<Lit("gateway token missing", 21)>>,
                                   v |-> 0]],
           id |-> 1], TRUE)}

SessionData == [serverWs |-> SessionClientData, containerWs |-> SessionBackendData]

\* Close codes of a close event: 1000, and 1005 for a close frame that
\* carries no status code.
SessionCloseCodes == {1000, 1005}

\* RFC 6455 section 7.4.1: the codes an endpoint must not put into a close
\* frame.
ReservedCodes == {1005, 1006, 1015}

\* WebSocket.close(code, reason) throws for a reserved code and for a reason
\* of more than 123 bytes, and leaves the socket as it was.
closeThrows(closing) ==
    closing.code \in ReservedCodes \/ byteLength(closing.reason) > 123

closeOutcome(readyState, closing) ==
    IF closeThrows(closing) THEN readyState ELSE closed(readyState)

event(type, data, code, reason) ==
    [type |-> type, data |-> data, code |-> code, reason |-> reason]

Arrivals == Len(received.serverWs) + Len(received.containerWs)

\* No close and no failure has been queued for the socket: its connection
\* still carries frames.
Connected(sock) ==
    \A i \in DOMAIN received[sock] : received[sock][i].type = "message"

\* The peer of the socket sends a message.
PeerMessage(sock, data) ==
    /\ Arrivals < MaxEvents
    /\ Connected(sock)
    /\ received' = [received EXCEPT
                      ![sock] = Append(@, event("message", data, 0, <<>>))]
    /\ UNCHANGED <<host, serverWs, containerWs, ev, calls, dispatched, sent,
                   lifecycleVars, workerVars>>

\* The peer of the socket closes the connection.
PeerClose(sock, code) ==
    /\ Arrivals < MaxEvents
    /\ Connected(sock)
    /\ received' = [received EXCEPT
                      ![sock] = Append(@, event("close", [type |-> "none"],
                                                code, <<>>))]
    /\ UNCHANGED <<host, serverWs, containerWs, ev, calls, dispatched, sent,
                   lifecycleVars, workerVars>>

\* The connection of the socket fails.
PeerError(sock) ==
    /\ Arrivals < MaxEvents
    /\ Connected(sock)
    /\ received' = [received EXCEPT
                      ![sock] = Append(@, event("error", [type |-> "none"],
                                                0, <<>>))]
    /\ UNCHANGED <<host, serverWs, containerWs, ev, calls, dispatched, sent,
                   lifecycleVars, workerVars>>

\* The peer answers the close frame of a socket the worker has closed.
CloseReply(sock) ==
    /\ (IF sock = "serverWs" THEN serverWs ELSE containerWs) = "CLOSING"
    /\ Connected(sock)
    /\ received' = [received EXCEPT
                      ![sock] = Append(@, event("close", [type |-> "none"],
                                                1000, <<>>))]
    /\ UNCHANGED <<host, serverWs, containerWs, ev, calls, dispatched, sent,
                   lifecycleVars, workerVars>>

\* The runtime releases a socket whose connection has failed, once its
\* 'error' listener has run.
Released(sock) ==
    /\ dispatched[sock] = Len(received[sock])
    /\ dispatched[sock] > 0
    /\ received[sock][dispatched[sock]].type = "error"
    /\ (IF sock = "serverWs" THEN serverWs ELSE containerWs) # "CLOSED"
    /\ serverWs' = IF sock = "serverWs" THEN "CLOSED" ELSE serverWs
    /\ containerWs' = IF sock = "containerWs" THEN "CLOSED" ELSE containerWs
    /\ UNCHANGED <<host, ev, calls, sessionVars, lifecycleVars, workerVars>>

\* The event the runtime dispatches next to the listeners of the socket.
next(sock) == received[sock][dispatched[sock] + 1]

Pending(sock, type) ==
    /\ dispatched[sock] < Len(received[sock])
    /\ next(sock).type = type

\* A variant of deliver that hands the newest payload to the socket first.
deliverNewestFirst(outbox, sends, n) ==
    [i \in DOMAIN sends |-> [n |-> n, data |-> sends[i].data]] \o outbox

\* What a socket has been handed after a listener run made the send calls
\* sends for event n.
deliver(outbox, sends, n) ==
    outbox \o [i \in DOMAIN sends |-> [n |-> n, data |-> sends[i].data]]

\* A variant of OnContainerWsMessage that sends whatever the client
\* socket's state.
OnContainerWsMessageAlways ==
    /\ Pending("containerWs", "message")
    /\ LET e == next("containerWs")
           sends == <<sendCall("serverWs", interceptMessage(e.data, host))>>
       IN /\ ev' = [NoEvent EXCEPT !.sock = "containerWs", !.type = "message",
                                   !.data = e.data]
          /\ calls' = sends
          /\ sent' = [sent EXCEPT
                        !.serverWs = deliver(@, sends, dispatched.containerWs + 1)]
    /\ dispatched' = [dispatched EXCEPT !.containerWs = @ + 1]
    /\ UNCHANGED <<host, serverWs, containerWs, received, lifecycleVars,
                   workerVars>>

\* serverWs 'message' (lines 482-495)
OnServerWsMessage ==
    /\ Pending("serverWs", "message")
    /\ LET e == next("serverWs")
           sends == relayToContainer(containerWs, e.data)
       IN /\ ev' = [NoEvent EXCEPT !.sock = "serverWs", !.type = "message",
                                   !.data = e.data]
          /\ calls' = sends
          /\ sent' = [sent EXCEPT
                        !.containerWs = deliver(@, sends, dispatched.serverWs + 1)]
    /\ dispatched' = [dispatched EXCEPT !.serverWs = @ + 1]
    /\ UNCHANGED <<host, serverWs, containerWs, received, lifecycleVars,
                   workerVars>>

\* containerWs 'message' (lines 498-537)
OnContainerWsMessage ==
    /\ Pending("containerWs", "message")
    /\ LET e == next("containerWs")
           sends == relayToClient(serverWs, interceptMessage(e.data, host))
       IN /\ ev' = [NoEvent EXCEPT !.sock = "containerWs", !.type = "message",
                                   !.data = e.data]
          /\ calls' = sends
          /\ sent' = [sent EXCEPT
                        !.serverWs = deliver(@, sends, dispatched.containerWs + 1)]
    /\ dispatched' = [dispatched EXCEPT !.containerWs = @ + 1]
    /\ UNCHANGED <<host, serverWs, containerWs, received, lifecycleVars,
                   workerVars>>

\* serverWs 'close' (lines 540-545)
OnServerWsClose ==
    /\ Pending("serverWs", "close")
    /\ LET e == next("serverWs")
           closing == clientCloseCall(e.code, e.reason)
       IN /\ ev' = [NoEvent EXCEPT !.sock = "serverWs", !.type = "close",
                                   !.code = e.code, !.reason = e.reason]
          /\ calls' = <<closing>>
          /\ containerWs' = closeOutcome(containerWs, closing)
    /\ serverWs' = "CLOSED"
    /\ dispatched' = [dispatched EXCEPT !.serverWs = @ + 1]
    /\ UNCHANGED <<host, received, sent, lifecycleVars, workerVars>>

\* containerWs 'close' (lines 547-560)
OnContainerWsClose ==
    /\ Pending("containerWs", "close")
    /\ LET e == next("containerWs")
           closing == containerCloseCall(e.code, e.reason, host)
       IN /\ ev' = [NoEvent EXCEPT !.sock = "containerWs", !.type = "close",
                                   !.code = e.code, !.reason = e.reason]
          /\ calls' = <<closing>>
          /\ serverWs' = closeOutcome(serverWs, closing)
    /\ containerWs' = "CLOSED"
    /\ dispatched' = [dispatched EXCEPT !.containerWs = @ + 1]
    /\ UNCHANGED <<host, received, sent, lifecycleVars, workerVars>>

\* serverWs 'error' (lines 563-566)
OnServerWsError ==
    /\ Pending("serverWs", "error")
    /\ LET closing == closeCall("containerWs", 1011, <<Lit("Client error", 12)>>)
       IN /\ ev' = [NoEvent EXCEPT !.sock = "serverWs", !.type = "error"]
          /\ calls' = <<closing>>
          /\ containerWs' = closeOutcome(containerWs, closing)
    /\ dispatched' = [dispatched EXCEPT !.serverWs = @ + 1]
    /\ UNCHANGED <<host, serverWs, received, sent, lifecycleVars, workerVars>>

\* containerWs 'error' (lines 568-571)
OnContainerWsError ==
    /\ Pending("containerWs", "error")
    /\ LET closing == closeCall("serverWs", 1011, <<Lit("Container error", 15)>>)
       IN /\ ev' = [NoEvent EXCEPT !.sock = "containerWs", !.type = "error"]
          /\ calls' = <<closing>>
          /\ serverWs' = closeOutcome(serverWs, closing)
    /\ dispatched' = [dispatched EXCEPT !.containerWs = @ + 1]
    /\ UNCHANGED <<host, containerWs, received, sent, lifecycleVars, workerVars>>

SessionInit ==
    /\ procs = <<>>
    /\ req = [r \in Reqs |-> IdleReq]
    /\ normalOp = TRUE
    /\ env = [ANTHROPIC_API_KEY |-> TRUE]
    /\ host = <<Lit("example.com", 11)>>
    /\ serverWs = "OPEN"
    /\ containerWs = "OPEN"
    /\ ev = NoEvent
    /\ calls = <<>>
    /\ SessionIdle
    /\ WorkerIdle

SessionNext ==
    \/ \E sock \in Sockets : \E data \in SessionData[sock] : PeerMessage(sock, data)
    \/ \E sock \in Sockets, code \in SessionCloseCodes : PeerClose(sock, code)
    \/ \E sock \in Sockets : PeerError(sock)
    \/ \E sock \in Sockets : CloseReply(sock)
    \/ \E sock \in Sockets : Released(sock)
    \/ OnServerWsMessage
    \/ OnContainerWsMessage
    \/ OnServerWsClose
    \/ OnContainerWsClose
    \/ OnServerWsError
    \/ OnContainerWsError

SessionSpec == SessionInit /\ [][SessionNext]_vars

\* C21: the payloads handed to a socket of a relay session are those of the
\* messages received on the other socket (as relayed: verbatim towards the
\* backend, intercepted towards the client), each at most once and in the
\* order in which those messages arrived, whatever happens in the opposite
\* direction in between.
C21_PerDirectionFifo ==
    \A sock \in Sockets :
        /\ \A i \in DOMAIN sent[sock] :
             LET n == sent[sock][i].n IN
             /\ n \in 1..dispatched[Peer[sock]]
             /\ received[Peer[sock]][n].type = "message"
             /\ sent[sock][i].data =
                    IF sock = "containerWs"
                    THEN received.serverWs[n].data
                    ELSE interceptMessage(received.containerWs[n].data, host)
        /\ \A i, j \in DOMAIN sent[sock] :
             i < j => sent[sock][i].n < sent[sock][j].n

\* Two client messages delivered in order around a backend message.
C21_Witness ==
    /\ Len(sent.containerWs) = 2
    /\ Len(sent.serverWs) = 1
    /\ sent.containerWs[1].data # sent.containerWs[2].data
    /\ ev.sock = "serverWs"
    /\ dispatched.containerWs = 1
    /\ Len(received.serverWs) = 2

ReadyState(sock) == IF sock = "serverWs" THEN serverWs ELSE containerWs

\* A step in which a listener of the socket runs for an event of the type.
Runs(sock, type) ==
    /\ dispatched'[sock] = dispatched[sock] + 1
    /\ received[sock][dispatched'[sock]].type = type

\* C27: whatever the interleaving of message, close and error events on the
\* two sockets, a listener run calls send only on a socket that is OPEN when
\* it runs; a backend message dispatched while the client socket is not OPEN
\* makes no call and is handed to the client socket neither then nor later:
\* the client socket is handed a payload only in the run of the backend
\* message the payload belongs to.
C27_SendOnlyWhenOpen ==
    [][/\ \A sock \in Sockets :
            dispatched'[sock] # dispatched[sock] =>
                \A i \in DOMAIN calls' :
                    calls'[i].op = "send" => ReadyState(calls'[i].sock) = "OPEN"
       /\ Runs("containerWs", "message") /\ serverWs # "OPEN" =>
              calls' = <<>> /\ sent' = sent
       /\ sent'.serverWs # sent.serverWs =>
              /\ Runs("containerWs", "message")
              /\ serverWs = "OPEN"
              /\ Len(sent'.serverWs) = Len(sent.serverWs) + 1
              /\ sent'.serverWs[Len(sent'.serverWs)].n = dispatched'.containerWs
       /\ sent'.containerWs # sent.containerWs =>
              /\ Runs("serverWs", "message")
              /\ containerWs = "OPEN"]_vars

\* A backend message dropped after the client closed.
C27_Witness ==
    /\ BackendMessage
    /\ calls = <<>>
    /\ serverWs = "CLOSED"
    /\ dispatched.containerWs = 1
    /\ received.containerWs[1].type = "message"
    /\ sent.serverWs = <<>>

\* The runtime runs the listener of every queued event, every close frame
\* the worker sends is answered, and a failed socket is released.
SessionFairness ==
    /\ WF_vars(OnServerWsMessage)
    /\ WF_vars(OnContainerWsMessage)
    /\ WF_vars(OnServerWsClose)
    /\ WF_vars(OnContainerWsClose)
    /\ WF_vars(OnServerWsError)
    /\ WF_vars(OnContainerWsError)
    /\ \A sock \in Sockets : WF_vars(CloseReply(sock))
    /\ \A sock \in Sockets : WF_vars(Released(sock))

SessionFairSpec == SessionSpec /\ SessionFairness

\* A close or an error listener has run.
Fired ==
    \E sock \in Sockets : \E i \in 1..dispatched[sock] :
        received[sock][i].type \in {"close", "error"}

WoundDown ==
    /\ serverWs = "CLOSED"
    /\ containerWs = "CLOSED"
    /\ \A sock \in Sockets : dispatched[sock] = Len(received[sock])

\* C22: once a close or an error listener of a relay session has run, the
\* session reaches, and stays in, the state in which both sockets are CLOSED
\* and no event is left to dispatch.
C22_SessionWindsDown == Fired ~> []WoundDown

\* C24: a request to a /debug path is answered by the debug router only if
\* the Access middleware has authenticated it and DEBUG_ROUTES is 'true'.
C24_DebugBehindAccess ==
    handler.pc = "done" /\ handler.by = "debug" /\ handler.resp.body = "debug" =>
        /\ handler.resp.DEBUG_ROUTES
        /\ \E i \in DOMAIN trace :
             trace[i].op = "createAccessMiddleware" /\ trace[i].ok

(***************************************************************************)
(* The catch-all proxy handler, await by await (index.ts 380-596): each    *)
(* call on the sandbox layer returns or fails, and the backend's answer on *)
(* the HTTP path is a response with status, status text, body and headers. *)
(***************************************************************************)
\* Headers: a set of <<name, value>> pairs, names in lower case.
BackendHeaderPairs ==
    {<<"content-type", "text/html">>, <<"set-cookie", "a=1">>,
     <<"set-cookie", "b=2">>, <<"x-worker-debug", "backend">>}

NullBodyStatus == {204, 304}

\* What containerFetch resolves to.  A response with a null body status has
\* no body.
BackendResponses ==
    {r \in [status : {200, 204, 404, 500}, statusText : {"", "text"},
            body : {"null", "stream"}, headers : SUBSET BackendHeaderPairs] :
        r.status \in NullBodyStatus => r.body = "null"}

ProxyPaths == {"/", "/api/chat"}

\* A variant of headersSet that appends, as Headers.append does.
headersAppend(headers, name, value) == headers \cup {<<name, value>>}

\* Headers.set(name, value)
headersSet(headers, name, value) ==
    {h \in headers : h[1] # name} \cup {<<name, value>>}

\* index.ts lines 587-595
httpProxyResponse(httpResponse, pathname) ==
    LET newHeaders ==
            headersSet(headersSet(httpResponse.headers,
                                  "x-worker-debug", "proxy-to-moltbot"),
                       "x-debug-path", pathname)
    IN [body |-> httpResponse.body, status |-> httpResponse.status,
        statusText |-> httpResponse.statusText, headers |-> newHeaders]

\* The settings the handler's hint reads, and the other provider key.
ProxyEnvs == [ANTHROPIC_API_KEY : BOOLEAN, OPENAI_API_KEY : BOOLEAN]

\* What the awaited ensureMoltbotGateway settles with.
OOMErrors ==
    {[name |-> "StartupError", message |-> m, isError |-> TRUE] :
        m \in OOMMessages}
EnsureErrors ==
    {StartupError, TimeoutError,
     [name |-> "thrown", message |-> "startup: OOM", isError |-> FALSE]}
    \cup OOMErrors

\* The handler ends by returning resp, or by throwing.
returned(ctx, resp) ==
    [ctx EXCEPT !.pc = "done", !.outcome = "returned", !.resp = resp]
threw(ctx) == [ctx EXCEPT !.pc = "done", !.outcome = "threw"]

\* Lines 380-407: the registry query and the loading page.
CatchAll(isWebSocketRequest, acceptsHtml, pathname, queryOk) ==
    /\ handler.pc = "none"
    /\ LET ctx == [pc |-> "ensure", entry |-> "proxy",
                   isWebSocketRequest |-> isWebSocketRequest,
                   acceptsHtml |-> acceptsHtml, pathname |-> pathname,
                   outcome |-> "none", resp |-> NoResp, error |-> NoErr,
                   httpResponse |-> NoResp]
           existingProcess == findExistingMoltbotProcess(procs)
           ready == isGatewayReady(procs, existingProcess)
       IN IF ~queryOk
          THEN /\ handler' = threw(ctx)
               /\ trace' = <<processCall("findExistingMoltbotProcess",
                                         NoProc, FALSE)>>
          ELSE IF servesLoadingPage(ready, isWebSocketRequest, acceptsHtml)
          THEN /\ handler' = returned(ctx, loadingPageHtml)
               /\ trace' = <<call("findExistingMoltbotProcess"),
                             call("ensureMoltbotGateway")>>
          ELSE /\ handler' = ctx
               /\ trace' = <<call("findExistingMoltbotProcess")>>
    /\ UNCHANGED <<mounted, lifecycleVars, relayVars>>

\* Lines 410-431: the awaited ensureMoltbotGateway.
CatchAllEnsure(error) ==
    /\ handler.pc = "ensure"
    /\ trace' = Append(trace, processCall("ensureMoltbotGateway", NoProc,
                                          error = NoErr))
    /\ handler' =
          IF error # NoErr
          THEN returned([handler EXCEPT !.error = error],
                        startupFailureResponse(env, error))
          ELSE [handler EXCEPT !.pc = IF handler.isWebSocketRequest
                                      THEN "wsConnect" ELSE "containerFetch"]
    /\ UNCHANGED <<mounted, lifecycleVars, relayVars>>

\* Lines 434-580: the upgrade.
CatchAllWsConnect(ok) ==
    /\ handler.pc = "wsConnect"
    /\ trace' = Append(trace, processCall("wsConnect", NoProc, ok))
    /\ handler' = IF ok
                  THEN returned(handler, [status |-> 101, body |-> "webSocket"])
                  ELSE threw(handler)
    /\ UNCHANGED <<mounted, lifecycleVars, relayVars>>

\* Lines 582-595: the HTTP path.
CatchAllContainerFetch(ok, httpResponse) ==
    /\ handler.pc = "containerFetch"
    /\ ~ok => httpResponse = NoResp
    /\ ok => httpResponse \in BackendResponses
    /\ trace' = Append(trace, processCall("containerFetch", NoProc, ok))
    /\ handler' =
          IF ok
          THEN returned([handler EXCEPT !.httpResponse = httpResponse],
                        httpProxyResponse(httpResponse, handler.pathname))
          ELSE threw(handler)
    /\ UNCHANGED <<mounted, lifecycleVars, relayVars>>

ProxyInit ==
    /\ procs \in {ps \in ProcLists : Len(ps) <= 1}
    /\ req = [r \in Reqs |-> IdleReq]
    /\ normalOp = TRUE
    /\ env \in ProxyEnvs
    /\ RelayIdle
    /\ WorkerIdle

ProxyNext ==
    \/ \E isWebSocketRequest \in BOOLEAN, acceptsHtml \in BOOLEAN,
          pathname \in ProxyPaths, queryOk \in BOOLEAN :
          CatchAll(isWebSocketRequest, acceptsHtml, pathname, queryOk)
    \/ \E error \in {NoErr} \cup EnsureErrors : CatchAllEnsure(error)
    \/ \E ok \in BOOLEAN : CatchAllWsConnect(ok)
    \/ \E ok \in BOOLEAN, httpResponse \in BackendResponses \cup {NoResp} :
          CatchAllContainerFetch(ok, httpResponse)

ProxySpec == ProxyInit /\ [][ProxyNext]_vars

Forwarded ==
    /\ handler.pc = "done"
    /\ handler.entry = "proxy"
    /\ handler.httpResponse # NoResp

DiagnosticHeaders == {"x-worker-debug", "x-debug-path"}

\* C23: the response of the HTTP proxy path has the status, status text and
\* body of the backend's response, and its headers; of the two diagnostic
\* headers it has exactly X-Worker-Debug: proxy-to-moltbot and X-Debug-Path:
\* the request's path, and every other header is there exactly as the
\* backend sent it.
C23_HttpResponseUnmodified ==
    Forwarded =>
        /\ handler.outcome = "returned"
        /\ handler.resp.status = handler.httpResponse.status
        /\ handler.resp.statusText = handler.httpResponse.statusText
        /\ handler.resp.body = handler.httpResponse.body
        /\ {h \in handler.resp.headers : h[1] \notin DiagnosticHeaders}
             = {h \in handler.httpResponse.headers : h[1] \notin DiagnosticHeaders}
        /\ {h \in handler.resp.headers : h[1] \in DiagnosticHeaders}
             = {<<"x-worker-debug", "proxy-to-moltbot">>,
                <<"x-debug-path", handler.pathname>>}

\* A 404 of a backend that sets two cookies and its own X-Worker-Debug.
C23_Witness ==
    /\ Forwarded
    /\ handler.httpResponse.status = 404
    /\ handler.httpResponse.headers =
          {<<"set-cookie", "a=1">>, <<"set-cookie", "b=2">>,
           <<"x-worker-debug", "backend">>}
    /\ handler.resp.status = 404
    /\ <<"x-worker-debug", "proxy-to-moltbot">> \in handler.resp.headers

SandboxFailed == \E i \in DOMAIN trace : ~trace[i].ok

\* C25: when the registry query, the awaited ensureMoltbotGateway, wsConnect
\* or containerFetch fails during a proxied request, the handler returns,
\* and what it returns is a structured error response: a 503 with a JSON
\* body of error, details and hint.
C25_NoUnstructuredFailure ==
    handler.pc = "done" /\ handler.entry = "proxy" /\ SandboxFailed =>
        /\ handler.outcome = "returned"
        /\ handler.resp.status = 503
        /\ handler.resp.body = "json"
        /\ DOMAIN handler.resp = {"status", "body", "error", "details", "hint"}

StartFailed ==
    /\ handler.pc = "done"
    /\ handler.entry = "proxy"
    /\ handler.error # NoErr

\* C26: the hint of the 503 startup-failure response is the out-of-memory
\* hint when the failure's message contains 'heap out of memory' or 'OOM',
\* the missing-credential hint when no provider credential is set, and the
\* check-the-logs hint otherwise.
C26_HintFromUnmetPrecondition ==
    StartFailed =>
        handler.resp.hint =
            IF handler.resp.details \in OOMMessages
            THEN "Gateway ran out of memory. Try again or check for memory leaks."
            ELSE IF ~env.ANTHROPIC_API_KEY /\ ~env.OPENAI_API_KEY
            THEN "ANTHROPIC_API_KEY is not set. Run: wrangler secret put ANTHROPIC_API_KEY"
            ELSE "Check worker logs with: wrangler tail"

====
